---- MODULE Spec2Model ----
(***************************************************************************)
(* TeamsLLMbot: the streaming relay (LocalLLMClient.stream_reply and       *)
(* generate_reply) and the per-conversation history kept by                *)
(* TeamsLLMBot.on_message_activity.                                        *)
(*                                                                         *)
(* Python str values are sequences of one-character strings, so that       *)
(* emptiness, concatenation and prefixes are those of the text.  JSON      *)
(* values are tagged records [t, v]; a JSON object is an association list  *)
(* of <<key, value>> pairs.  A line of the response body is a sequence of  *)
(* lexical tokens [k, v].                                                  *)
(***************************************************************************)
EXTENDS Integers, Sequences, FiniteSets, TLC

VARIABLES
  settings,          \* the module-level settings object
  resp,              \* generate_reply: the response the model server gives
  cursor,            \* generate_reply: number of body lines consumed
  gen,               \* generate_reply: state of the stream_reply generator
  chunks,            \* generate_reply: the list `chunks`
  reply,             \* generate_reply: how the call ended
  histories,         \* TeamsLLMBot._conversation_histories
  pc,                \* per handler task: the await it is suspended at
  activity,          \* per task: turn_context.activity
  history,           \* per task: the local `history`
  accumulated_text,  \* per task: the local `accumulated_text`
  yielded,           \* per task: the chunks stream_reply has yielded to the turn
  reply_id,          \* per task: reply_activity.id
  outbox,            \* per task: send_activity / update_activity calls of the turn
  request,           \* per task: the POST payloads sent to the model server
  result,            \* per task: how the /api/messages request ended
  turns,             \* number of inbound messages so far
  log,               \* per conversation: every message ever committed, in order
  read_at,           \* per task: Len(log) of its conversation when it read history
  overlapped         \* per conversation: a commit was made from a stale read

dvars == <<resp, cursor, gen, chunks, reply>>
tvars == <<histories, pc, activity, history, accumulated_text, yielded, reply_id,
           outbox, request, result, turns, log, read_at, overlapped>>
vars == <<settings, dvars, tvars>>

----------------------------------------------------------------------------
(* Bounds *)
MaxLines == 3          \* body lines of a response given to generate_reply
MaxTurns == 2          \* inbound messages in Spec
MaxDeltas == 2         \* deltas per stream in Spec
MaxChunks == 3         \* chunks per stream in SpecTurn
MaxLongTurns == 12     \* inbound messages in SpecLong
SoloTurns == 10        \* of which the first are handled one at a time

----------------------------------------------------------------------------
(* Python values *)

None == [t |-> "null", v |-> 0]
JNum(n) == [t |-> "num", v |-> n]
JStr(s) == [t |-> "str", v |-> s]
JList(xs) == [t |-> "list", v |-> xs]
JObj(kvs) == [t |-> "obj", v |-> kvs]

\* bool(x) of a parsed JSON value
Truthy(j) ==
  CASE j.t = "null" -> FALSE
    [] j.t = "num" -> j.v # 0
    [] OTHER -> j.v # <<>>

\* str(x) of a parsed JSON value
PyStr(j) ==
  CASE j.t = "str" -> j.v
    [] j.t = "num" -> <<ToString(j.v)>>
    [] j.t = "null" -> <<"N", "o", "n", "e">>
    [] j.t = "list" -> <<"[", "]">>
    [] OTHER -> <<"{", "}">>

\* d.get(key, default) of a dict
RECURSIVE DictGet(_, _, _)
DictGet(kvs, key, default) ==
  IF kvs = <<>> THEN default
  ELSE IF kvs[Len(kvs)][1] = key THEN kvs[Len(kvs)][2]
  ELSE DictGet(SubSeq(kvs, 1, Len(kvs) - 1), key, default)

\* "".join(parts)
RECURSIVE Join(_)
Join(parts) == IF parts = <<>> THEN <<>> ELSE Head(parts) \o Join(Tail(parts))

----------------------------------------------------------------------------
(* Lines of the response body *)

Tok(k, v) == [k |-> k, v |-> v]
Ws == Tok("ws", None)                  \* a whitespace character
DataPrefix == Tok("data:", None)       \* the five characters data:
DoneTok == Tok("[DONE]", None)         \* the six characters [DONE]
OtherText == Tok("text", None)         \* any other run of characters
Truncated == Tok("cut", None)          \* a JSON document cut short
JsonTok(j) == Tok("json", j)           \* the text of the JSON document j

\* s.strip()
RECURSIVE LStrip(_)
LStrip(s) == IF s # <<>> /\ Head(s) = Ws THEN LStrip(Tail(s)) ELSE s
RECURSIVE RStrip(_)
RStrip(s) ==
  IF s # <<>> /\ s[Len(s)] = Ws THEN RStrip(SubSeq(s, 1, Len(s) - 1)) ELSE s
Strip(s) == RStrip(LStrip(s))

\* json.loads(text): one complete document, surrounding whitespace allowed
json_loads(text) ==
  LET doc == Strip(text) IN
  IF Len(doc) = 1 /\ doc[1].k = "json"
  THEN [ok |-> TRUE, value |-> doc[1].v]
  ELSE [ok |-> FALSE, value |-> None]

Skip == [kind |-> "skip", text |-> <<>>]

\* mutant: the [DONE] payload is passed over like any other line
Done_Ignored == [kind |-> "skip", text |-> <<>>]

\* `if data_str == "[DONE]": break`
Done == [kind |-> "done", text |-> <<>>]
Raise == [kind |-> "raise", text |-> <<>>]
Yield(s) == [kind |-> "yield", text |-> s]

\* choices[0]
CanIndex0(j) == j.t \in {"list", "str"}
Index0(j) == IF j.t = "str" THEN JStr(<<j.v[1]>>) ELSE j.v[1]

\* mutant: a delta with empty content is yielded too
DecodeDelta_YieldsEmpty(first_choice) ==
  IF first_choice.t # "obj" THEN Raise
  ELSE LET delta == DictGet(first_choice.v, "delta", JObj(<<>>)) IN
       IF delta.t # "obj" THEN Raise
       ELSE Yield(PyStr(DictGet(delta.v, "content", JStr(<<>>))))

DecodeDelta(first_choice) ==
  IF first_choice.t # "obj" THEN Raise
  ELSE LET delta == DictGet(first_choice.v, "delta", JObj(<<>>)) IN
       IF delta.t # "obj" THEN Raise
       ELSE LET content_piece == DictGet(delta.v, "content", JStr(<<>>)) IN
            IF ~Truthy(content_piece) THEN Skip
            ELSE Yield(PyStr(content_piece))

DecodeData(data) ==
  IF data.t # "obj" THEN Raise
  ELSE LET choices == DictGet(data.v, "choices", JList(<<>>)) IN
       IF ~Truthy(choices) THEN Skip
       ELSE IF ~CanIndex0(choices) THEN Raise
       ELSE DecodeDelta(Index0(choices))

\* mutant: the parse error is not caught
OnJSONDecodeError_Propagates == Raise

\* except json.JSONDecodeError: continue
OnJSONDecodeError == Skip

\* the body of the `async for line` loop of stream_reply, for one line
DecodeFrame(raw) ==
  IF raw = <<>> THEN Skip
  ELSE LET line == Strip(raw) IN
       IF line = <<>> \/ Head(line) # DataPrefix THEN Skip
       ELSE LET data_str == Strip(Tail(line)) IN
            IF data_str = <<DoneTok>> THEN Done
            ELSE LET parsed == json_loads(data_str) IN
                 IF ~parsed.ok THEN OnJSONDecodeError
                 ELSE DecodeData(parsed.value)

----------------------------------------------------------------------------
(* settings and _build_messages *)

\* the fields the Settings dataclass declares
DeclaredAttrs ==
  {"microsoft_app_id", "microsoft_app_password", "llm_base_url",
   "llm_chat_path", "llm_model", "host", "port"}

\* the attributes LocalLLMClient reads from settings
LLMAttrs == {"llm_system_prompt", "llm_supports_vision"}

MkSettings(attrs, prompt, vision) ==
  [attrs |-> attrs, llm_system_prompt |-> prompt, llm_supports_vision |-> vision]

\* the settings object as settings.py builds it, and as llm_client.py reads it
SettingsSet ==
  {MkSettings(DeclaredAttrs, <<>>, FALSE)} \cup
  {MkSettings(DeclaredAttrs \cup LLMAttrs, p, v) : p \in {<<>>, <<"S">>}, v \in BOOLEAN}

PlainContent(s) == [kind |-> "str", text |-> s, images |-> <<>>]
PartsContent(s, urls) == [kind |-> "parts", text |-> s, images |-> urls]
Msg(role, content) == [role |-> role, content |-> content]

\* _build_messages; None and the empty list are both <<>>.  ok is FALSE when
\* reading an attribute of settings raises AttributeError.
build_messages(user_message, history_messages, image_urls) ==
  IF ~(LLMAttrs \subseteq settings.attrs) THEN [ok |-> FALSE, messages |-> <<>>]
  ELSE
    LET sys == IF settings.llm_system_prompt # <<>>
               THEN <<Msg("system", PlainContent(settings.llm_system_prompt))>>
               ELSE <<>>
        user == IF settings.llm_supports_vision /\ image_urls # <<>>
                THEN Msg("user", PartsContent(user_message, image_urls))
                ELSE Msg("user", PlainContent(user_message))
    IN [ok |-> TRUE, messages |-> sys \o history_messages \o <<user>>]

----------------------------------------------------------------------------
(* The state after construction *)

Tasks == {"t1", "t2"}               \* concurrently running handler tasks
Conversations == {"c1", "c2"}       \* activity.conversation.id
BotId == "bot"                      \* activity.recipient.id
UserId == "alice"

NoActivity == [conversation |-> "c1", text |-> <<>>, entities |-> <<>>, recipient |-> BotId]

\* TeamsLLMBot.__init__ and no request being handled
BotIdle ==
  /\ histories = [c \in Conversations |-> <<>>]
  /\ pc = [t \in Tasks |-> "idle"]
  /\ activity = [t \in Tasks |-> NoActivity]
  /\ history = [t \in Tasks |-> <<>>]
  /\ accumulated_text = [t \in Tasks |-> <<>>]
  /\ yielded = [t \in Tasks |-> <<>>]
  /\ reply_id = [t \in Tasks |-> ""]
  /\ outbox = [t \in Tasks |-> <<>>]
  /\ request = [t \in Tasks |-> <<>>]
  /\ result = [t \in Tasks |-> "none"]
  /\ turns = 0
  /\ log = [c \in Conversations |-> <<>>]
  /\ read_at = [t \in Tasks |-> 0]
  /\ overlapped = [c \in Conversations |-> FALSE]

----------------------------------------------------------------------------
(* generate_reply driving stream_reply over one response of the model server *)

Chunk(content) ==
  JObj(<< <<"choices", JList(<<JObj(<< <<"delta", JObj(<< <<"content", content>> >>)>> >>)>>)>> >>)
DataLine(j) == <<DataPrefix, Ws, JsonTok(j)>>
DoneLine == <<DataPrefix, Ws, DoneTok>>

\* lines unparseable as JSON
MalformedLines == {<<DataPrefix, Ws, Truncated>>, <<DataPrefix>>}
\* well-formed chunk lines and the lines the event-stream convention lets pass
ChunkLines ==
  {DataLine(Chunk(JStr(<<"a">>))), DataLine(Chunk(JStr(<<"b", "c">>))),
   DataLine(Chunk(JStr(<<>>))),
   DataLine(JObj(<< <<"choices", JList(<<JObj(<< <<"delta", JObj(<< <<"role", JStr(<<"r">>)>> >>)>> >>)>>)>> >>)),
   DataLine(JObj(<< <<"choices", JList(<<>>)>> >>))}
IgnoredLines == {<<>>, <<Ws, OtherText>>}
\* parseable payloads of another shape
HostileLines ==
  {DataLine(JNum(5)), DataLine(None),
   DataLine(JObj(<< <<"choices", JList(<<None>>)>> >>)),
   DataLine(JObj(<< <<"choices", JList(<<JObj(<< <<"delta", None>> >>)>>)>> >>)),
   DataLine(Chunk(JNum(7)))}
LineUniverse ==
  MalformedLines \cup ChunkLines \cup IgnoredLines \cup HostileLines \cup {DoneLine}

SeqsUpTo(S, n) == UNION {[1..k -> S] : k \in 0..n}

MkResp(status, lines, ending) == [status |-> status, lines |-> lines, ending |-> ending]
Responses ==
  {MkResp(200, ls, e) : ls \in SeqsUpTo(LineUniverse, MaxLines), e \in {"eof", "drop"}}
  \cup {MkResp(500, ls, "eof") : ls \in SeqsUpTo({DataLine(Chunk(JStr(<<"a">>)))}, 1)}

Pending == [state |-> "pending", text |-> <<>>]
\* mutant: the empty text is returned as it is
sentinel_Empty == <<>>

sentinel == <<"e", "m", "p", "t", "y">>     \* "ローカル LLM の応答内容が空でした。"

InitDecode ==
  /\ settings \in {s \in SettingsSet : s.llm_system_prompt = <<>> /\ ~s.llm_supports_vision}
  /\ resp \in Responses
  /\ cursor = 0
  /\ gen = "start"
  /\ chunks = <<>>
  /\ reply = Pending
  /\ BotIdle

\* mutant: the status of the response is not looked at
OpenStream_IgnoresStatus ==
  /\ gen = "start"
  /\ gen' = IF build_messages(<<"q">>, <<>>, <<>>).ok THEN "streaming" ELSE "raised"
  /\ UNCHANGED <<settings, resp, cursor, chunks, reply, tvars>>

\* stream_reply up to raise_for_status
OpenStream ==
  /\ gen = "start"
  /\ gen' = IF build_messages(<<"q">>, <<>>, <<>>).ok /\ resp.status \in 200..299
            THEN "streaming" ELSE "raised"
  /\ UNCHANGED <<settings, resp, cursor, chunks, reply, tvars>>

\* one iteration of `async for line in response.aiter_lines()`
ReadLine ==
  /\ gen = "streaming"
  /\ cursor < Len(resp.lines)
  /\ LET frame == DecodeFrame(resp.lines[cursor + 1]) IN
     /\ cursor' = cursor + 1
     /\ gen' = CASE frame.kind = "done" -> "ended"
                 [] frame.kind = "raise" -> "raised"
                 [] OTHER -> "streaming"
     /\ chunks' = IF frame.kind = "yield" THEN Append(chunks, frame.text) ELSE chunks
  /\ UNCHANGED <<settings, resp, reply, tvars>>

\* the body ends: the connection closes cleanly
BodyEof ==
  /\ gen = "streaming"
  /\ cursor = Len(resp.lines)
  /\ resp.ending = "eof"
  /\ gen' = "ended"
  /\ UNCHANGED <<settings, resp, cursor, chunks, reply, tvars>>

\* mutant: the failed read ends the iteration like the end of the body
BodyDrop_EndsNormally ==
  /\ gen = "streaming"
  /\ cursor = Len(resp.lines)
  /\ resp.ending = "drop"
  /\ gen' = "ended"
  /\ UNCHANGED <<settings, resp, cursor, chunks, reply, tvars>>

\* the body ends: the connection drops or the timeout expires
BodyDrop ==
  /\ gen = "streaming"
  /\ cursor = Len(resp.lines)
  /\ resp.ending = "drop"
  /\ gen' = "raised"
  /\ UNCHANGED <<settings, resp, cursor, chunks, reply, tvars>>

\* generate_reply after its `async for` ends
GenerateReturn ==
  /\ gen = "ended"
  /\ reply = Pending
  /\ LET full_text == Join(chunks) IN
     reply' = [state |-> "returned",
               text |-> IF full_text = <<>> THEN sentinel ELSE full_text]
  /\ UNCHANGED <<settings, resp, cursor, gen, chunks, tvars>>

\* the exception of stream_reply leaves generate_reply
GenerateRaise ==
  /\ gen = "raised"
  /\ reply = Pending
  /\ reply' = [state |-> "raised", text |-> <<>>]
  /\ UNCHANGED <<settings, resp, cursor, gen, chunks, tvars>>

NextDecode ==
  \/ OpenStream
  \/ ReadLine
  \/ BodyEof
  \/ BodyDrop
  \/ GenerateReturn
  \/ GenerateRaise

SpecDecode == InitDecode /\ [][NextDecode]_vars

\* stream_reply's loop over a whole body, as a function of the body
RECURSIVE StreamLoop(_, _, _)
StreamLoop(lines, ending, acc) ==
  IF lines = <<>>
  THEN [chunks |-> acc, gen |-> IF ending = "eof" THEN "ended" ELSE "raised"]
  ELSE LET frame == DecodeFrame(Head(lines)) IN
       CASE frame.kind = "done" -> [chunks |-> acc, gen |-> "ended"]
         [] frame.kind = "raise" -> [chunks |-> acc, gen |-> "raised"]
         [] frame.kind = "yield" -> StreamLoop(Tail(lines), ending, Append(acc, frame.text))
         [] OTHER -> StreamLoop(Tail(lines), ending, acc)

----------------------------------------------------------------------------
(* Claims about stream_reply and generate_reply (SpecDecode) *)

\* the request was built and answered with success
Opened == LLMAttrs \subseteq settings.attrs /\ resp.status = 200

\* a valid event stream: chunk lines and ignorable lines, then one data: [DONE]
ValidStream ==
  /\ resp.status = 200
  /\ resp.lines # <<>>
  /\ resp.lines[Len(resp.lines)] = DoneLine
  /\ \A i \in 1..(Len(resp.lines) - 1) : resp.lines[i] \in ChunkLines \cup IgnoredLines

\* choices[0].delta.content of a chunk line, <<>> when it carries none
DeltaContent(line) ==
  LET choices == DictGet(line[3].v.v, "choices", JList(<<>>)).v IN
  IF choices = <<>> THEN <<>>
  ELSE DictGet(DictGet(choices[1].v, "delta", JObj(<<>>)).v, "content", JStr(<<>>)).v

RECURSIVE ExpectedDeltas(_)
ExpectedDeltas(lines) ==
  IF lines = <<>> THEN <<>>
  ELSE LET rest == ExpectedDeltas(Tail(lines)) IN
       IF Head(lines) \in ChunkLines /\ DeltaContent(Head(lines)) # <<>>
       THEN <<DeltaContent(Head(lines))>> \o rest
       ELSE rest

RemoveMalformed(lines) == SelectSeq(lines, LAMBDA l : l \notin MalformedLines)

\* C9: with malformed data: lines interleaved, stream_reply yields the same
\* deltas and ends the same way as for the stream with those lines removed.
C9_MalformedLinesContributeNothing ==
  (Opened /\ gen \in {"ended", "raised"}) =>
    LET clean == StreamLoop(RemoveMalformed(resp.lines), resp.ending, <<>>) IN
    /\ chunks = clean.chunks
    /\ gen = clean.gen

C9_Witness ==
  /\ Opened
  /\ gen = "ended"
  /\ Len(resp.lines) = 3
  /\ resp.lines[1] \in ChunkLines
  /\ resp.lines[2] \in MalformedLines
  /\ resp.lines[3] \in ChunkLines
  /\ Len(chunks) = 2

\* C10: consuming a data: line never makes stream_reply raise, whatever the
\* payload of the line.
C10_NoFrameIsFatal ==
  [][(gen = "streaming" /\ cursor' = cursor + 1) => gen' # "raised"]_vars

\* C11: once a line with payload [DONE] has been consumed, stream_reply has
\* ended: that line is the last one consumed, the chunks yielded are those of
\* the lines before it, and what generate_reply returns is made of those only.
C11_NothingAfterDone ==
  \A i \in 1..Len(resp.lines) :
    (resp.lines[i] = DoneLine /\ cursor >= i) =>
      LET before == StreamLoop(SubSeq(resp.lines, 1, i - 1), "eof", <<>>).chunks IN
      /\ cursor = i
      /\ gen = "ended"
      /\ chunks = before
      /\ reply.state # "raised"
      /\ reply.state = "returned" =>
           reply.text = IF Join(before) = <<>> THEN sentinel ELSE Join(before)

C11_Witness ==
  /\ resp.lines = <<DataLine(Chunk(JStr(<<"a">>))), DoneLine,
                    DataLine(Chunk(JStr(<<"b", "c">>)))>>
  /\ cursor = 2
  /\ reply = [state |-> "returned", text |-> <<"a">>]

\* C12: generate_reply never returns the empty string: when no consumed line
\* carried a non-empty delta it returns the fixed sentinel text, otherwise the
\* non-empty concatenation of the chunks in order.
C12_ReplyNeverEmpty ==
  reply.state = "returned" =>
    /\ reply.text # <<>>
    /\ IF \A i \in 1..cursor : DecodeFrame(resp.lines[i]).kind # "yield"
       THEN reply.text = sentinel
       ELSE reply.text = Join(chunks) /\ Join(chunks) # <<>>

C12_Witness ==
  /\ reply = [state |-> "returned", text |-> sentinel]
  /\ resp.lines = <<DataLine(Chunk(JStr(<<>>))), DoneLine>>
  /\ cursor = 2

\* C17: when the model server answers with a non-2xx status, stream_reply
\* raises before reading the body: no line is consumed, no chunk is yielded
\* and generate_reply does not return.
C17_ErrorStatusYieldsNothing ==
  resp.status \notin 200..299 =>
    /\ gen \in {"start", "raised"}
    /\ cursor = 0
    /\ chunks = <<>>
    /\ reply.state # "returned"

C17_Witness ==
  /\ resp.status = 500
  /\ resp.lines = <<DataLine(Chunk(JStr(<<"a">>)))>>
  /\ LLMAttrs \subseteq settings.attrs
  /\ reply.state = "raised"

\* C18: when the connection drops before a [DONE] line, stream_reply does not
\* end normally and generate_reply does not return: the chunks delivered before
\* the drop are never a successful result.
C18_DropSurfaces ==
  (resp.ending = "drop" /\ \A i \in 1..Len(resp.lines) : resp.lines[i] # DoneLine) =>
    /\ gen # "ended"
    /\ reply.state # "returned"

C18_Witness ==
  /\ resp.ending = "drop"
  /\ Len(resp.lines) = 2
  /\ \A i \in 1..2 : resp.lines[i] \in ChunkLines
  /\ cursor = 2
  /\ Len(chunks) = 2
  /\ reply.state = "raised"

----------------------------------------------------------------------------
(* TeamsLLMBot.on_message_activity, one task per inbound message *)

HistoryCap == 20
initial_text == <<"t", "h", "i", "n", "k">>      \* "考えています..."
empty_text_reply == <<"e", "m", "p", "t", "y", "?">>

Entity(type, mentioned) == [type |-> type, mentioned |-> mentioned]
\* entity.mentioned is <<>> for None and <<id>> for an account with that id
Mention(id) == Entity("mention", <<id>>)

MkActivity(conv, text, entities) ==
  [conversation |-> conv, text |-> text, entities |-> entities, recipient |-> BotId]

\* mutant: any mention counts, whoever is mentioned
is_mentioned_AnyMention(act) ==
  \E i \in 1..Len(act.entities) : act.entities[i].type = "mention"

\* the mention loop of on_message_activity
is_mentioned(act) ==
  \E i \in 1..Len(act.entities) :
    /\ act.entities[i].type = "mention"
    /\ act.entities[i].mentioned # <<>>
    /\ act.entities[i].mentioned[1] = act.recipient

\* xs[-n:]
LastN(xs, n) == IF Len(xs) > n THEN SubSeq(xs, Len(xs) - n + 1, Len(xs)) ELSE xs

\* history[-20:] if len(history) > 20 else history
limited_history(h) == IF Len(h) > HistoryCap THEN LastN(h, HistoryCap) ELSE h

\* mutant: the history is never cut
Truncate_Never(new_history) == new_history

\* mutant: the oldest 20 are kept instead of the newest
Truncate_KeepsOldest(new_history) ==
  IF Len(new_history) > HistoryCap THEN SubSeq(new_history, 1, HistoryCap) ELSE new_history

\* mutant: one message fewer than the cap is kept
Truncate_DropsOne(new_history) ==
  IF Len(new_history) > HistoryCap THEN LastN(new_history, HistoryCap - 1) ELSE new_history

\* new_history, after `if len(new_history) > 20: new_history = new_history[-20:]`
Truncate(new_history) ==
  IF Len(new_history) > HistoryCap THEN LastN(new_history, HistoryCap) ELSE new_history

HistMsg(role, text) == Msg(role, PlainContent(text))

\* the id the channel gives the activity a task sent
ResourceId(t) == t
Send(text) == [op |-> "send", id |-> "", text |-> text]

\* mutant: each text is sent as a new message instead of updating the placeholder
Update_SendsNew(id, text) == [op |-> "send", id |-> "", text |-> text]

\* update_activity(reply_activity) with reply_activity.id and .text set
Update(id, text) == [op |-> "update", id |-> id, text |-> text]

Terminated(t) == pc[t] \in {"done", "failed", "cancelled"}

\* mutant: the partial turn is written to the history before the exception leaves
Raises_AfterCommit(t) ==
  /\ pc' = [pc EXCEPT ![t] = "failed"]
  /\ result' = [result EXCEPT ![t] = "exception"]
  /\ histories' = [histories EXCEPT ![activity[t].conversation] =
                     Truncate(history[t] \o <<HistMsg("user", activity[t].text),
                                              HistMsg("assistant", accumulated_text[t])>>)]
  /\ UNCHANGED <<log, overlapped>>

\* an exception leaves on_message_activity, bot.on_turn and the messages endpoint
Raises(t) ==
  /\ pc' = [pc EXCEPT ![t] = "failed"]
  /\ result' = [result EXCEPT ![t] = "exception"]
  /\ UNCHANGED <<histories, log, overlapped>>

\* mutant: every conversation is kept under one key
conversation_id_Shared(act) == "c1"

\* conversation_id = turn_context.activity.conversation.id
conversation_id(act) == act.conversation

\* lines 102-114: the stream ended, the turn is written to the history
Commit(t) ==
  LET key == conversation_id(activity[t])
      final_text == IF accumulated_text[t] # <<>> THEN accumulated_text[t] ELSE initial_text
      pair == <<HistMsg("user", activity[t].text), HistMsg("assistant", final_text)>>
      new_history == Truncate(history[t] \o pair)
  IN /\ histories' = [histories EXCEPT ![key] = new_history]
     /\ log' = [log EXCEPT ![key] = @ \o pair]
     /\ overlapped' = [overlapped EXCEPT ![key] = @ \/ read_at[t] # Len(log[key])]
     /\ pc' = [pc EXCEPT ![t] = "done"]
     /\ result' = [result EXCEPT ![t] = "responded"]

\* POST /api/messages: on_message_activity up to its first await
Receive(t, act) ==
  /\ pc[t] = "idle"
  /\ turns' = turns + 1
  /\ activity' = [activity EXCEPT ![t] = act]
  /\ accumulated_text' = [accumulated_text EXCEPT ![t] = <<>>]
  /\ yielded' = [yielded EXCEPT ![t] = <<>>]
  /\ reply_id' = [reply_id EXCEPT ![t] = ""]
  /\ request' = [request EXCEPT ![t] = <<>>]
  /\ UNCHANGED <<settings, dvars, histories, log, overlapped>>
  /\ IF ~is_mentioned(act)
     THEN /\ pc' = [pc EXCEPT ![t] = "done"]
          /\ result' = [result EXCEPT ![t] = "responded"]
          /\ outbox' = [outbox EXCEPT ![t] = <<>>]
          /\ history' = [history EXCEPT ![t] = <<>>]
          /\ read_at' = [read_at EXCEPT ![t] = 0]
     ELSE IF act.text = <<>>
     THEN /\ pc' = [pc EXCEPT ![t] = "send_empty"]
          /\ result' = [result EXCEPT ![t] = "pending"]
          /\ outbox' = [outbox EXCEPT ![t] = <<Send(empty_text_reply)>>]
          /\ history' = [history EXCEPT ![t] = <<>>]
          /\ read_at' = [read_at EXCEPT ![t] = 0]
     ELSE /\ pc' = [pc EXCEPT ![t] = "send_placeholder"]
          /\ result' = [result EXCEPT ![t] = "pending"]
          /\ outbox' = [outbox EXCEPT ![t] = <<Send(initial_text)>>]
          /\ history' = [history EXCEPT ![t] = histories[conversation_id(act)]]
          /\ read_at' = [read_at EXCEPT ![t] = Len(log[conversation_id(act)])]

\* send_activity(empty_activity) completes; the handler returns
EmptyReplySent(t) ==
  /\ pc[t] = "send_empty"
  /\ pc' = [pc EXCEPT ![t] = "done"]
  /\ result' = [result EXCEPT ![t] = "responded"]
  /\ UNCHANGED <<settings, dvars, histories, activity, history, accumulated_text,
                 yielded, reply_id, outbox, request, turns, log, read_at, overlapped>>

\* send_activity(reply_activity) completes with the id the channel gave; stream_reply
\* builds the payload and posts it
PlaceholderSent(t) ==
  /\ pc[t] = "send_placeholder"
  /\ reply_id' = [reply_id EXCEPT ![t] = ResourceId(t)]
  /\ LET built == build_messages(activity[t].text, limited_history(history[t]), <<>>) IN
     IF built.ok
     THEN /\ request' = [request EXCEPT ![t] = Append(@, built.messages)]
          /\ pc' = [pc EXCEPT ![t] = "await_response"]
          /\ UNCHANGED <<result, histories, log, overlapped>>
     ELSE /\ Raises(t)
          /\ UNCHANGED request
  /\ UNCHANGED <<settings, dvars, activity, history, accumulated_text, yielded,
                 outbox, turns, read_at>>

\* the response head arrives; raise_for_status
ResponseHead(t, status) ==
  /\ pc[t] = "await_response"
  /\ IF status \in 200..299
     THEN /\ pc' = [pc EXCEPT ![t] = "await_line"]
          /\ UNCHANGED <<result, histories, log, overlapped>>
     ELSE Raises(t)
  /\ UNCHANGED <<settings, dvars, activity, history, accumulated_text, yielded,
                 reply_id, outbox, request, turns, read_at>>

\* the connection fails or times out: before the head, or while a line is awaited
TransportFails(t) ==
  /\ pc[t] \in {"await_response", "await_line"}
  /\ Raises(t)
  /\ UNCHANGED <<settings, dvars, activity, history, accumulated_text, yielded,
                 reply_id, outbox, request, turns, read_at>>

\* mutant: the new chunk is put in front of the text so far
Accumulate_Prepends(text, chunk) == chunk \o text

\* accumulated_text += chunk
Accumulate(text, chunk) == text \o chunk

\* one body line arrives and is decoded
StreamLine(t, line) ==
  /\ pc[t] = "await_line"
  /\ UNCHANGED <<settings, dvars, activity, history, reply_id, request, turns, read_at>>
  /\ LET frame == DecodeFrame(line) IN
     CASE frame.kind = "yield" ->
            /\ yielded' = [yielded EXCEPT ![t] = Append(@, frame.text)]
            /\ accumulated_text' = [accumulated_text EXCEPT ![t] = Accumulate(@, frame.text)]
            /\ outbox' = [outbox EXCEPT ![t] =
                            Append(@, Update(reply_id[t], accumulated_text'[t]))]
            /\ pc' = [pc EXCEPT ![t] = "await_update"]
            /\ UNCHANGED <<histories, result, log, overlapped>>
       [] frame.kind = "done" ->
            /\ Commit(t)
            /\ UNCHANGED <<accumulated_text, yielded, outbox>>
       [] frame.kind = "raise" ->
            /\ Raises(t)
            /\ UNCHANGED <<accumulated_text, yielded, outbox>>
       [] OTHER ->
            UNCHANGED <<histories, pc, accumulated_text, yielded, outbox, result, log,
                        overlapped>>

\* the body ends without a [DONE] line: the connection closes cleanly
StreamEof(t) ==
  /\ pc[t] = "await_line"
  /\ Commit(t)
  /\ UNCHANGED <<settings, dvars, activity, history, accumulated_text, yielded,
                 reply_id, outbox, request, turns, read_at>>

\* update_activity(reply_activity) completes
UpdateDone(t) ==
  /\ pc[t] = "await_update"
  /\ pc' = [pc EXCEPT ![t] = "await_line"]
  /\ UNCHANGED <<settings, dvars, histories, activity, history, accumulated_text,
                 yielded, reply_id, outbox, request, result, turns, log, read_at,
                 overlapped>>

\* the awaits on_message_activity can be suspended at
Suspended(t) ==
  pc[t] \in {"send_empty", "send_placeholder", "await_response", "await_line", "await_update"}

\* mutant: the cancelled turn writes what it has to the history on its way out
Cancel_Commits(t) ==
  /\ Suspended(t)
  /\ pc' = [pc EXCEPT ![t] = "cancelled"]
  /\ result' = [result EXCEPT ![t] = "cancelled"]
  /\ histories' = [histories EXCEPT ![activity[t].conversation] =
                     Truncate(history[t] \o <<HistMsg("user", activity[t].text),
                                              HistMsg("assistant", accumulated_text[t])>>)]
  /\ UNCHANGED <<settings, dvars, activity, history, accumulated_text, yielded,
                 reply_id, outbox, request, turns, log, read_at, overlapped>>

\* the task running the request is cancelled: CancelledError is raised at the
\* await the handler is suspended at and leaves it
Cancel(t) ==
  /\ Suspended(t)
  /\ pc' = [pc EXCEPT ![t] = "cancelled"]
  /\ result' = [result EXCEPT ![t] = "cancelled"]
  /\ UNCHANGED <<settings, dvars, histories, activity, history, accumulated_text,
                 yielded, reply_id, outbox, request, turns, log, read_at, overlapped>>

\* adapter.process_activity is over: the endpoint answers, or the exception leaves it
Respond(t) ==
  /\ Terminated(t)
  /\ pc' = [pc EXCEPT ![t] = "idle"]
  /\ activity' = [activity EXCEPT ![t] = NoActivity]
  /\ history' = [history EXCEPT ![t] = <<>>]
  /\ accumulated_text' = [accumulated_text EXCEPT ![t] = <<>>]
  /\ yielded' = [yielded EXCEPT ![t] = <<>>]
  /\ reply_id' = [reply_id EXCEPT ![t] = ""]
  /\ outbox' = [outbox EXCEPT ![t] = <<>>]
  /\ request' = [request EXCEPT ![t] = <<>>]
  /\ result' = [result EXCEPT ![t] = "none"]
  /\ read_at' = [read_at EXCEPT ![t] = 0]
  /\ UNCHANGED <<settings, dvars, histories, turns, log, overlapped>>

----------------------------------------------------------------------------
(* Spec: concurrent turns, varied messages and streams *)

Texts == {<<>>, <<" ">>, <<"h">>}
Addressed == <<Mention(UserId), Mention(BotId)>>
NotAddressed ==
  {<<>>, <<Mention(UserId)>>, <<Entity("clientInfo", <<BotId>>), Entity("mention", <<>>)>>}
Activities ==
  {MkActivity(c, x, Addressed) : c \in Conversations, x \in Texts}
  \cup {MkActivity("c1", <<"h">>, es) : es \in NotAddressed}

StreamLines ==
  {DataLine(Chunk(JStr(<<"a">>))), <<DataPrefix, Ws, Truncated>>, DataLine(JNum(5)), DoneLine}

Init ==
  /\ settings \in {s \in SettingsSet : s.llm_system_prompt = <<>> /\ ~s.llm_supports_vision}
  /\ resp = MkResp(200, <<>>, "eof")
  /\ cursor = 0
  /\ gen = "start"
  /\ chunks = <<>>
  /\ reply = Pending
  /\ BotIdle

Next ==
  \/ \E t \in Tasks, act \in Activities : turns < MaxTurns /\ Receive(t, act)
  \/ \E t \in Tasks : EmptyReplySent(t)
  \/ \E t \in Tasks : PlaceholderSent(t)
  \/ \E t \in Tasks, status \in {200, 500} : ResponseHead(t, status)
  \/ \E t \in Tasks : TransportFails(t)
  \/ \E t \in Tasks, line \in StreamLines :
       Len(outbox[t]) <= MaxDeltas /\ StreamLine(t, line)
  \/ \E t \in Tasks : StreamEof(t)
  \/ \E t \in Tasks : UpdateDone(t)
  \/ \E t \in Tasks : Cancel(t)
  \/ \E t \in Tasks : Respond(t)

Spec == Init /\ [][Next]_vars

----------------------------------------------------------------------------
(* SpecTurn: one turn at a time on conversations without history, streams of *)
(* several different chunks                                                  *)

TurnLines ==
  StreamLines \cup
  {DataLine(Chunk(JStr(<<"b", "c">>))), DataLine(Chunk(JStr(<<>>))), <<Ws, OtherText>>}

NextTurn ==
  \/ \E act \in Activities :
       /\ turns < MaxTurns
       /\ histories[act.conversation] = <<>>
       /\ Receive("t1", act)
  \/ EmptyReplySent("t1")
  \/ PlaceholderSent("t1")
  \/ \E status \in {200, 500} : ResponseHead("t1", status)
  \/ TransportFails("t1")
  \/ \E line \in TurnLines : Len(yielded["t1"]) < MaxChunks /\ StreamLine("t1", line)
  \/ StreamEof("t1")
  \/ UpdateDone("t1")
  \/ Cancel("t1")
  \/ Respond("t1")

SpecTurn == Init /\ [][NextTurn]_vars

----------------------------------------------------------------------------
(* SpecLong: many turns on one conversation, every message with its own text *)

TextNo(n) == <<ToString(n)>>
LongActivities(n) ==
  {MkActivity("c1", TextNo(n), Addressed), MkActivity("c1", <<>>, Addressed),
   MkActivity("c1", TextNo(n), <<Mention(UserId)>>)}
LongLines == {DataLine(Chunk(JStr(<<"a">>))), DoneLine}

\* The first SoloTurns messages are handled one at a time by t1; later ones may
\* overlap.  The model server streams one delta, then data: [DONE], or answers 500.
NextLong ==
  \/ \E t \in Tasks, act \in LongActivities(turns + 1) :
       /\ turns < MaxLongTurns
       /\ turns < SoloTurns => (t = "t1" /\ \A u \in Tasks : pc[u] = "idle")
       /\ Receive(t, act)
  \/ \E t \in Tasks : EmptyReplySent(t)
  \/ \E t \in Tasks : PlaceholderSent(t)
  \/ \E t \in Tasks, status \in {200, 500} : ResponseHead(t, status)
  \/ \E t \in Tasks, line \in LongLines :
       /\ (line = DoneLine) = (accumulated_text[t] # <<>>)
       /\ StreamLine(t, line)
  \/ \E t \in Tasks : UpdateDone(t)
  \/ \E t \in Tasks : Respond(t)

SpecLong == Init /\ [][NextLong]_vars

----------------------------------------------------------------------------
(* Claims about the turns *)

\* the mention annotations include a mention of the bot's own identity
MentionsBot(act) ==
  \E i \in 1..Len(act.entities) :
    act.entities[i] = Entity("mention", <<act.recipient>>)

\* the text is empty or consists only of whitespace
IsBlank(text) == \A i \in 1..Len(text) : text[i] = " "

\* the turn of t streamed to its end and was committed
Streamed(t) == pc[t] = "done" /\ request[t] # <<>>

CommittedPair(t) ==
  <<HistMsg("user", activity[t].text),
    HistMsg("assistant", IF accumulated_text[t] = <<>> THEN initial_text
                         ELSE accumulated_text[t])>>

PairAt(h, i) == IF i + 1 <= Len(h) THEN <<h[i], h[i + 1]>> ELSE <<>>

\* C1: when two turns on one conversation have both streamed to the end, the
\* stored history of the conversation holds the user/assistant pair of each of
\* them (unless the 20-entry cap has evicted it).
C1_BothPairsStored ==
  \A t \in Tasks, u \in Tasks :
    (t # u /\ Streamed(t) /\ Streamed(u)
       /\ activity[t].conversation = activity[u].conversation) =>
      LET c == activity[t].conversation IN
      \/ Len(log[c]) > 20
      \/ \E i \in 1..Len(histories[c]), j \in 1..Len(histories[c]) :
           /\ i # j
           /\ PairAt(histories[c], i) = CommittedPair(t)
           /\ PairAt(histories[c], j) = CommittedPair(u)

\* C2: the stored history of every conversation has at most 20 messages, in
\* every reachable state.
C2_HistoryAtMostTwenty ==
  \A c \in Conversations : Len(histories[c]) <= 20

C2_Witness ==
  \E c \in Conversations : Len(histories[c]) = 20 /\ Len(log[c]) > 20

\* C3: as long as no turn of a conversation was committed from a read that
\* another commit had made stale (the committed turns did not overlap), the
\* stored history is the last min(2N, 20) messages of the N committed
\* user/assistant pairs, in their order.
C3_HistoryIsTailOfCommitted ==
  \A c \in Conversations :
    ~overlapped[c] =>
      LET n == Len(log[c])
          k == IF n < 20 THEN n ELSE 20
      IN histories[c] = [i \in 1..k |-> log[c][n - k + i]]

C3_Witness ==
  /\ ~overlapped["c1"]
  /\ Len(log["c1"]) = 22
  /\ histories["c1"][1] = log["c1"][3]
  /\ histories["c1"][1] # log["c1"][1]
  /\ histories["c1"][20] = log["c1"][22]

\* C4: when the streaming call of a turn has failed, and no other turn has
\* committed to the conversation since the turn read its history, the stored
\* history of the conversation is the history the turn read: the failed turn
\* wrote nothing.
C4_FailedTurnNotCommitted ==
  \A t \in Tasks :
    (pc[t] = "failed" /\ read_at[t] = Len(log[activity[t].conversation])) =>
      histories[activity[t].conversation] = history[t]

C4_Witness ==
  \E t \in Tasks :
    /\ pc[t] = "failed"
    /\ accumulated_text[t] # <<>>
    /\ Len(outbox[t]) >= 2
    /\ read_at[t] = Len(log[activity[t].conversation])
    /\ histories[activity[t].conversation] # <<>>

\* C5: when the streaming call of a turn fails after the request was sent, the
\* failure does not leave the message handler and an error reply is sent to the
\* conversation after the placeholder.
C5_FailureIsReported ==
  \A t \in Tasks :
    (pc[t] = "failed" /\ request[t] # <<>>) =>
      /\ result[t] # "exception"
      /\ \E i \in 2..Len(outbox[t]) : outbox[t][i].op = "send"

\* C6: a message whose mention annotations do not mention the bot ends its turn
\* at once: nothing is sent or updated, no request goes to the model server and
\* no history changes.
C6_UnmentionedIsIgnored ==
  [][\A t \in Tasks :
       (pc[t] = "idle" /\ pc'[t] # "idle" /\ ~MentionsBot(activity'[t])) =>
         /\ pc'[t] = "done"
         /\ result'[t] = "responded"
         /\ outbox'[t] = <<>>
         /\ request'[t] = <<>>
         /\ histories' = histories]_vars

C6_Witness ==
  \E t \in Tasks :
    /\ pc[t] = "done"
    /\ activity[t].entities = <<Mention(UserId)>>
    /\ outbox[t] = <<>>
    /\ \E c \in Conversations : histories[c] # <<>>

\* C7: for a message that mentions the bot and whose text is empty or only
\* whitespace, the only call to the channel is the fixed prompt-for-input reply
\* and no request goes to the model server.
C7_BlankTextIsPrompted ==
  \A t \in Tasks :
    (pc[t] # "idle" /\ MentionsBot(activity[t]) /\ IsBlank(activity[t].text)) =>
      /\ outbox[t] = <<Send(empty_text_reply)>>
      /\ request[t] = <<>>

\* the texts published by update_activity in the turn of t, in order
Published(t) ==
  LET ups == SelectSeq(outbox[t], LAMBDA m : m.op = "update") IN
  [k \in 1..Len(ups) |-> ups[k].text]

IsProperPrefix(a, b) == Len(a) < Len(b) /\ SubSeq(b, 1, Len(a)) = a

\* C13: within one streaming reply the k-th published text is the concatenation
\* of the first k chunks yielded, each published text is a proper prefix of the
\* next, and when the stream has ended the last published text is the whole
\* accumulation.
C13_UpdatesArePrefixChain ==
  \A t \in Tasks :
    LET pub == Published(t) IN
    /\ Len(pub) = Len(yielded[t])
    /\ \A k \in 1..Len(pub) : pub[k] = Join(SubSeq(yielded[t], 1, k))
    /\ \A k \in 1..(Len(pub) - 1) : IsProperPrefix(pub[k], pub[k + 1])
    /\ (Streamed(t) /\ pub # <<>>) =>
         /\ pub[Len(pub)] = accumulated_text[t]
         /\ pub[Len(pub)] = Join(yielded[t])

C13_Witness ==
  \E t \in Tasks :
    /\ Streamed(t)
    /\ yielded[t] = << <<"a">>, <<"b", "c">> >>
    /\ Published(t) = << <<"a">>, <<"a", "b", "c">> >>

\* C14: the history of a conversation changes only when the stream of a turn
\* on it ends, after the last update was published; the step then appends the
\* user message of the turn and the assistant message (the accumulated text, or
\* the placeholder text when nothing was accumulated) to the end of the stored
\* history, evicting from the front beyond 20.
C14_CommitAppendsPair ==
  [][\A c \in Conversations :
       histories'[c] # histories[c] =>
         \E t \in Tasks :
           /\ activity[t].conversation = c
           /\ pc[t] = "await_line"
           /\ pc'[t] = "done"
           /\ histories'[c] = LastN(histories[c] \o CommittedPair(t), 20)]_vars

\* C15: the step that cancels a turn, at whichever await it is suspended, and
\* every later step while the turn is cancelled, leaves the history of its
\* conversation as it is unless another turn commits to it: no commit is made
\* for a cancelled turn.
C15_CancelledTurnNotCommitted ==
  [][\A t \in Tasks :
       pc'[t] = "cancelled" =>
         LET c == activity[t].conversation IN
         \/ histories'[c] = histories[c] /\ log'[c] = log[c]
         \/ \E u \in Tasks \ {t} :
              activity[u].conversation = c /\ pc[u] = "await_line" /\ pc'[u] = "done"]_vars

C15_Witness ==
  \E t \in Tasks :
    /\ pc[t] = "cancelled"
    /\ accumulated_text[t] # <<>>
    /\ Len(outbox[t]) >= 2
    /\ histories[activity[t].conversation] = history[t]
    /\ log[activity[t].conversation] = history[t]

\* the message list the claim describes: the system message first iff the
\* prompt is non-empty, the history verbatim, one user message last
ExpectedMessages(prompt, vision, user_message, hist, urls) ==
  LET k == IF prompt # <<>> THEN 1 ELSE 0
      last == IF vision /\ urls # <<>>
              THEN Msg("user", PartsContent(user_message, urls))
              ELSE Msg("user", PlainContent(user_message))
  IN [i \in 1..(k + Len(hist) + 1) |->
        IF i <= k THEN Msg("system", PlainContent(prompt))
        ELSE IF i <= k + Len(hist) THEN hist[i - k]
        ELSE last]

\* C16: once the placeholder of a turn is sent and stream_reply has called
\* _build_messages, the messages posted are the system message iff the prompt
\* is non-empty, then the history given, then the user message; the history
\* the turn holds is as it was read.
C16_MessagesAreBuilt ==
  \A t \in Tasks :
    reply_id[t] # "" =>
      request[t] = <<ExpectedMessages(settings.llm_system_prompt,
                                      settings.llm_supports_vision,
                                      activity[t].text,
                                      limited_history(history[t]), <<>>)>>

\* C19: in a turn whose placeholder send has completed, the placeholder is the
\* first and only message sent, every later call is an update of the message
\* the placeholder send returned, and there is one update per chunk yielded;
\* no request goes to the model server before the placeholder send completes.
C19_OnePlaceholderThenUpdates ==
  \A t \in Tasks :
    /\ request[t] # <<>> => reply_id[t] # ""
    /\ pc[t] = "send_placeholder" =>
         outbox[t] = <<Send(initial_text)>> /\ yielded[t] = <<>>
    /\ reply_id[t] # "" =>
         /\ reply_id[t] = ResourceId(t)
         /\ outbox[t] # <<>>
         /\ outbox[t][1] = Send(initial_text)
         /\ \A i \in 2..Len(outbox[t]) :
              outbox[t][i].op = "update" /\ outbox[t][i].id = reply_id[t]
         /\ Len(outbox[t]) - 1 = Len(yielded[t])

C19_Witness ==
  \E t \in Tasks :
    /\ pc[t] = "done"
    /\ reply_id[t] = ResourceId(t)
    /\ Len(yielded[t]) = 2
    /\ Len(outbox[t]) = 3
    /\ outbox[t][3] = Update(reply_id[t], accumulated_text[t])

\* C20: every stored history has even length, alternates user, assistant,
\* user, assistant, ... from its first message, and holds no message with empty
\* content.
C20_HistoryIsWholePairs ==
  \A c \in Conversations :
    LET h == histories[c] IN
    /\ Len(h) % 2 = 0
    /\ \A i \in 1..Len(h) :
         /\ h[i].role = IF i % 2 = 1 THEN "user" ELSE "assistant"
         /\ h[i].content.text # <<>>

C20_Witness ==
  /\ overlapped["c1"]
  /\ Len(log["c1"]) > 22
  /\ Len(histories["c1"]) = 20
  /\ histories["c1"][1].role = "user"
  /\ histories["c1"][1] # log["c1"][1]
  /\ histories["c1"][20].role = "assistant"

\* the history messages of the request the turn of t posted: the messages
\* between the system message, if any, and the user message
HistorySent(msgs) ==
  LET k == IF settings.llm_system_prompt # <<>> THEN 1 ELSE 0 IN
  SubSeq(msgs, k + 1, Len(msgs) - 1)

\* C21: a step changes the stored history of a conversation only by the commit
\* of a turn on that conversation, so a turn leaves every other conversation's
\* history as it is; and every history message a turn sends to the model
\* server was committed to the turn's own conversation.
C21_ConversationsAreIsolated ==
  [][/\ \A c \in Conversations :
          histories'[c] # histories[c] =>
            \E t \in Tasks :
              /\ activity[t].conversation = c
              /\ pc[t] = "await_line"
              /\ pc'[t] = "done"
     /\ \A t \in Tasks :
          request'[t] # <<>> =>
            LET sent == HistorySent(request'[t][1])
                mine == log'[activity'[t].conversation]
            IN \A i \in 1..Len(sent) : \E j \in 1..Len(mine) : sent[i] = mine[j]]_vars

C21_Witness ==
  \E t \in Tasks, u \in Tasks :
    /\ activity[t].conversation = "c1"
    /\ activity[u].conversation = "c2"
    /\ activity[t].text # activity[u].text
    /\ Streamed(t)
    /\ Streamed(u)
    /\ histories["c1"] = CommittedPair(t)
    /\ histories["c2"] = CommittedPair(u)
    /\ HistorySent(request[u][1]) = <<>>

====
